---- MODULE Spec2Model ----
(***************************************************************************)
(* Einstein: the Laboratory service (entity submission and run             *)
(* orchestration) and the Repository service (crawl of cloud storage into  *)
(* a local database), as state machines.                                   *)
(*                                                                         *)
(* Spec            the Laboratory: create() and run() invocations on one   *)
(*                 service instance, interleaved at their awaits.          *)
(* ConcurrentSpec  run() invocations that overlap, over a filled storage.  *)
(* WorkerSpec      run() and the createWorker() calls it leaves pending.   *)
(* ServiceSpec     Laboratory.entryPoint(): deployment, startup delay,     *)
(*                 binding, and getPublicKey() calls.                      *)
(* RepoSpec        the Repository: initialize() calls on one instance,     *)
(*                 whose crawls interleave at their awaits.                *)
(* SweepSpec       crawls followed to their end, under fair scheduling.    *)
(* QuerySpec       select() calls on a Repository that is crawling.        *)
(***************************************************************************)
EXTENDS Integers, Sequences, FiniteSets, Bags, TLC

\* ------------------------------------------------------------------ bounds
\* create() calls made on the Laboratory.
MaxCreates == 3
\* run() invocations on the Laboratory, among its create() calls.
MaxRuns == 1
\* run() invocations that overlap, over a storage that create() has filled.
MaxConcurrentRuns == 2
\* initialize() calls made on one Repository instance.
MaxCrawls == 2
\* run() invocations observed together with the workers they request.
MaxWorkerRuns == 1
\* initialize() and select() calls made on a Repository that is queried
\* while it crawls.
MaxQueryCrawls == 1
MaxSelects == 1
\* initialize() calls, and blobs in storage, while one crawl is followed to
\* its end.
MaxSweeps == 1
MaxSwept == 2
\* Seconds observed, and getPublicKey() calls made, while the Laboratory is
\* deployed.
MaxClock == 11
MaxKeyCalls == 2

\* Entity names: a benchmark's or candidate's image tag, a suite's name.
Names == {"n1", "n2"}
\* What the secret field of a submitted candidate holds: text encrypted with
\* the Laboratory's public key, or text that is no ciphertext for it.
Secrets == {"cipher", "garbage"}

RunSlots == 1..MaxRuns
ConcurrentSlots == 1..MaxConcurrentRuns
CrawlSlots == 1..MaxCrawls
WorkerSlots == 1..MaxWorkerRuns
QueryCrawlSlots == 1..MaxQueryCrawls
SelectSlots == 1..MaxSelects
SweepSlots == 1..MaxSweeps

VARIABLES
    storage,        \* world.cloudStorage: blob key -> content
    logger,         \* world.logger: bag of the lines logged
    createCalls,    \* number of create() calls made
    createOutcomes, \* bag of what the create() calls gave their callers
    created,        \* <<key, description>> of every create() that returned
    runs,           \* run slot -> the locals of that run() invocation
    workers,        \* run slot -> the createWorker() calls it issued, in order
    database,       \* Repository.database: table name -> [columns, rows]
    benchmarkCache, \* Repository.benchmarkCache: blob key -> description
    storageReads,   \* bag of the blob keys the Repository read from storage
    crawls,         \* crawl slot -> the locals of that crawlBlobs() call
    console,        \* bag of the lines the Repository wrote with console.log
    orchestrator,   \* world.orchestrator: host -> how its createWorker() settled
    selects,        \* select slot -> the locals of that Repository.select() call
    clock,          \* seconds gone by
    service,        \* the host 'lab': where Laboratory.entryPoint() is
    services,       \* the <<host, port>> pairs a service is bound to
    keyCalls,       \* number of getPublicKey() calls made
    keyReplies      \* what the getPublicKey() calls returned

labVars == <<logger, createCalls, createOutcomes, created, runs, workers>>
repoVars == <<database, benchmarkCache, storageReads, crawls, console>>
hostVars == <<clock, service, services, keyCalls, keyReplies>>
cloudVars == <<orchestrator, hostVars>>
rpcVars == <<selects>>
vars == <<storage, labVars, repoVars, cloudVars, rpcVars>>

\* ------------------------------------------------------------------ naming
\* naming: encode<Collection>(name) is the blob key of the entity `name`.
encodeBenchmark(name) == <<"benchmarks", name>>
encodeCandidate(name) == <<"candidates", name>>
encodeSuite(name) == <<"suites", name>>
encodeLog(name) == <<"logs", name>>

\* naming.getCollection: the collection a blob key belongs to.
getCollection(blob) == blob[1]

\* candidateHostOf with the run id left out of the host name.
candidateHostFixed(runId) == <<"c", 0>>

\* The host names run() derives from a run id: 'c' + runId, 'b' + runId,
\* and the run name 'r' + runId.
candidateHostOf(runId) == <<"c", runId>>
benchmarkHostOf(runId) == <<"b", runId>>
runNameOf(runId) == <<"r", runId>>

\* ------------------------------------------------------------ descriptions
\* EntityDescription: the fields every description has. The description
\* text and the creation time play no part in any operation.
BenchmarkDescriptions ==
    [kind : {"benchmark"}, name : {"a benchmark"}, owner : {"o1"},
     created : {"t0"}, image : Names]
CandidateDescriptions ==
    [kind : {"candidate"}, name : {"a candidate"}, owner : {"o1"},
     created : {"t0"}, image : Names, benchmarkId : Names, secret : Secrets]
SuiteDescriptions ==
    [kind : {"suite"}, name : Names, owner : {"o1"}, created : {"t0"},
     benchmarkId : Names]
\* A description of a kind create() does not handle.
OtherDescriptions ==
    [kind : {"run"}, name : {"a run"}, owner : {"o1"}, created : {"t0"}]
AnyDescription ==
    BenchmarkDescriptions \cup CandidateDescriptions
        \cup SuiteDescriptions \cup OtherDescriptions

\* The fields of a description, in the order yaml.safeDump writes them.
FieldOrder(d) ==
    CASE d.kind = "benchmark" ->
            <<"kind", "name", "owner", "created", "image">>
      [] d.kind = "candidate" ->
            <<"kind", "name", "owner", "created", "image", "benchmarkId",
              "secret">>
      [] d.kind = "suite" ->
            <<"kind", "name", "owner", "created", "benchmarkId">>
      [] OTHER -> <<"kind", "name", "owner", "created">>

\* yaml.safeDump: the text of a description, one <<field, value>> line per
\* field.
safeDump(d) ==
    [i \in 1..Len(FieldOrder(d)) |-> <<FieldOrder(d)[i], d[FieldOrder(d)[i]]>>]

\* yaml.safeLoad: the description a text holds.
safeLoad(text) ==
    [f \in {text[i][1] : i \in 1..Len(text)} |->
        text[CHOOSE i \in 1..Len(text) : text[i][1] = f][2]]

\* ----------------------------------------------------------------- storage
\* RamDisk: a store that holds no blob.
NoBlobs == [k \in {} |-> <<>>]

\* IStorage.writeBlob(name, buffer, allowOverwrite): stores the blob; a write
\* to a name that holds a blob is refused unless allowOverwrite.
writeBlob(st, name, buffer, allowOverwrite) ==
    IF name \in DOMAIN st /\ ~allowOverwrite
    THEN [threw |-> TRUE, storage |-> st]
    ELSE [threw |-> FALSE, storage |-> (name :> buffer) @@ st]

\* IStorage.readBlob(name): the blob's content; fails when there is none.
readBlob(st, name) ==
    IF name \in DOMAIN st
    THEN [threw |-> FALSE, buffer |-> st[name]]
    ELSE [threw |-> TRUE, buffer |-> <<>>]

\* IStorage.listBlobs(): the names of the blobs held.
listBlobs(st) == DOMAIN st

\* loaders: load<Entity>(name, cloudStorage, encode = true) reads the blob of
\* the entity and parses it; `encode` tells whether `name` is an entity name,
\* still to be encoded, or already a blob key (as the Repository passes it).
loadFrom(st, key) ==
    LET b == readBlob(st, key)
    IN  [threw |-> b.threw, key |-> key,
         data |-> IF b.threw THEN [kind |-> "none"] ELSE safeLoad(b.buffer)]
loadBenchmark(name, st, encode) ==
    loadFrom(st, IF encode THEN encodeBenchmark(name) ELSE name)
loadCandidate(name, st, encode) ==
    loadFrom(st, IF encode THEN encodeCandidate(name) ELSE name)
loadSuite(name, st, encode) ==
    loadFrom(st, IF encode THEN encodeSuite(name) ELSE name)

\* secrets.decryptSecrets(candidate, privateKey): replaces the ciphertext of
\* the secret field by its plaintext; fails on text that is no ciphertext.
decryptSecrets(candidate) ==
    IF candidate.secret = "cipher"
    THEN [threw |-> FALSE, data |-> [candidate EXCEPT !.secret = "plain"]]
    ELSE [threw |-> TRUE, data |-> candidate]

\* -------------------------------------------------------- Laboratory.create
\* The line a handler logs, as <<text, argument, argument>>.
Line(text, a, b) == <<text, a, b>>

NoKey == <<"", "">>

\* What a handler of create() leaves: the error it threw ("" when it
\* returned), the key it returned, the storage and the lines it logged.
\* A write that fails throws before the handler's log line.
Uploaded(w, encoded, text) ==
    [error |-> IF w.threw THEN "storage error" ELSE "",
     key |-> encoded,
     storage |-> w.storage,
     logged |-> IF w.threw THEN EmptyBag
                ELSE SetToBag({Line(text, encoded, "")})]

\* createBenchmark(): the key is encoded from the image, the description is
\* dumped and written with allowOverwrite = false.
createBenchmark(description, st) ==
    LET encoded == encodeBenchmark(description.image)
        buffer == safeDump(description)
    IN  Uploaded(writeBlob(st, encoded, buffer, FALSE), encoded,
                 "Uploaded benchmark schema to")

\* createCandidate with allowOverwrite = true.
createCandidateOverwriting(description, st) ==
    LET encoded == encodeCandidate(description.image)
        buffer == safeDump(description)
    IN  Uploaded(writeBlob(st, encoded, buffer, TRUE), encoded,
                 "Uploaded candidate schema to")

\* createCandidate(): as createBenchmark(), in the candidates collection.
createCandidate(description, st) ==
    LET encoded == encodeCandidate(description.image)
        buffer == safeDump(description)
    IN  Uploaded(writeBlob(st, encoded, buffer, FALSE), encoded,
                 "Uploaded candidate schema to")

\* createSuite with allowOverwrite = true.
createSuiteOverwriting(description, st) ==
    LET encoded == encodeSuite(description.name)
        buffer == safeDump(description)
    IN  Uploaded(writeBlob(st, encoded, buffer, TRUE), encoded,
                 "Uploaded suite schema to")

\* createSuite(): the key is encoded from the suite's name.
createSuite(description, st) ==
    LET encoded == encodeSuite(description.name)
        buffer == safeDump(description)
    IN  Uploaded(writeBlob(st, encoded, buffer, FALSE), encoded,
                 "Uploaded suite schema to")

\* createUnsupported with the log call left out.
createUnsupportedSilent(description, st) ==
    [error |-> "TypeError: unsupported kind",
     key |-> NoKey,
     storage |-> st,
     logged |-> EmptyBag]

\* The default case of create(): the message is logged and thrown.
createUnsupported(description, st) ==
    [error |-> "TypeError: unsupported kind",
     key |-> NoKey,
     storage |-> st,
     logged |-> SetToBag({Line("Laboratory.create(): unsupported kind",
                               description.kind, "")})]

\* The kinds create() has a handler for.
SupportedKinds == {"benchmark", "candidate", "suite"}

\* create(): the switch on description.kind.
createDispatch(description, st) ==
    CASE description.kind = "benchmark" -> createBenchmark(description, st)
      [] description.kind = "candidate" -> createCandidate(description, st)
      [] description.kind = "suite" -> createSuite(description, st)
      [] OTHER -> createUnsupported(description, st)

\* One create(description) call, to its return or throw.
Create(description) ==
    /\ createCalls < MaxCreates
    /\ createCalls' = createCalls + 1
    /\ LET h == createDispatch(description, storage)
       IN  /\ storage' = h.storage
           /\ logger' = logger (+) h.logged
           /\ createOutcomes' = createOutcomes (+) SetToBag(
                 {[kind |-> description.kind, key |-> h.key,
                   error |-> h.error]})
           /\ created' = IF h.error = "" THEN created \cup {<<h.key, description>>}
                         ELSE created
    /\ UNCHANGED <<runs, workers, repoVars, cloudVars, rpcVars>>

\* ----------------------------------------------------------- Laboratory.run
NoData == [kind |-> "none"]
\* No RamDisk: `secrets` is not yet assigned.
NoDisk == 0

\* new RamDisk(): an object distinct from every other. run() makes at most
\* one, which is named after the invocation that made it.
newRamDisk(r) == r

\* A run() invocation not yet made. `disk` is the RamDisk the local
\* `secrets` refers to, `secrets` what that disk holds.
IdleRun ==
    [pc |-> "idle", candidateId |-> "", suiteId |-> "", suiteData |-> NoData,
     candidateData |-> NoData, runId |-> 0, secrets |-> NoBlobs,
     disk |-> NoDisk, reads |-> {}, threw |-> "", cause |-> "",
     steps |-> <<>>]

\* A load settles as the content of the store dictates, or fails on a fault
\* of the store (a read that times out, a connection that drops) though the
\* blob is there. `error` tells the two failures apart, as the rejection of
\* the loader does.
loadSettles(l, fault) ==
    [threw |-> l.threw \/ fault,
     key |-> l.key,
     data |-> IF fault THEN NoData ELSE l.data,
     error |-> IF l.threw THEN "not found"
               ELSE IF fault THEN "storage fault" ELSE ""]

\* The messages of the errors run() throws.
SuiteNotFound == "Cannot find suite"
CandidateNotFound == "Cannot find candidate"
BenchmarkMismatch == "Suite and Candidate benchmarks don't match."
\* decryptSecrets() throwing leaves run() with its error.
DecryptFailed == "decryptSecrets failed"

\* naming.createRunId(): an identifier no run has been given yet.
FreshRunIds == (DOMAIN runs) \ {runs[q].runId : q \in DOMAIN runs}

\* benchmarksMatch with the comparison left out.
benchmarksMatchUnchecked(suiteData, candidateData) == TRUE

\* The check of suite.benchmarkId against candidate.benchmarkId.
benchmarksMatch(suiteData, candidateData) ==
    suiteData.benchmarkId = candidateData.benchmarkId

\* new RamDisk() with the decrypted manifest written to 'spec.yaml'
\* (allowOverwrite = true).
secretsDisk(candidateData) ==
    writeBlob(NoBlobs, "spec.yaml", safeDump(candidateData), TRUE).storage

\* The first createWorker() call of run(): the candidate container.
candidateWorker(run) ==
    [hostname |-> candidateHostOf(run.runId),
     tag |-> run.candidateId,
     volumes |-> <<[mount |-> "/secrets", disk |-> run.disk,
                    storage |-> run.secrets]>>,
     environment |-> {},
     logger |-> [hostname |-> candidateHostOf(run.runId),
                 blob |-> encodeLog(candidateHostOf(run.runId))]]

\* benchmarkWorker with the volume of the secrets mounted.
benchmarkWorkerVolumed(run) ==
    [hostname |-> benchmarkHostOf(run.runId),
     tag |-> run.suiteData.benchmarkId,
     volumes |-> <<[mount |-> "/secrets", disk |-> run.disk,
                    storage |-> run.secrets]>>,
     environment |-> {<<"candidate", run.candidateId>>,
                      <<"host", candidateHostOf(run.runId)>>,
                      <<"run", runNameOf(run.runId)>>,
                      <<"suite", run.suiteId>>},
     logger |-> [hostname |-> benchmarkHostOf(run.runId),
                 blob |-> encodeLog(benchmarkHostOf(run.runId))]]

\* benchmarkWorker with its own host, not the candidate's, in the environment.
benchmarkWorkerOwnHost(run) ==
    [hostname |-> benchmarkHostOf(run.runId),
     tag |-> run.suiteData.benchmarkId,
     volumes |-> <<>>,
     environment |-> {<<"candidate", run.candidateId>>,
                      <<"host", benchmarkHostOf(run.runId)>>,
                      <<"run", runNameOf(run.runId)>>,
                      <<"suite", run.suiteId>>},
     logger |-> [hostname |-> benchmarkHostOf(run.runId),
                 blob |-> encodeLog(benchmarkHostOf(run.runId))]]

\* The second createWorker() call of run(): the benchmark container.
benchmarkWorker(run) ==
    [hostname |-> benchmarkHostOf(run.runId),
     tag |-> run.suiteData.benchmarkId,
     volumes |-> <<>>,
     environment |-> {<<"candidate", run.candidateId>>,
                      <<"host", candidateHostOf(run.runId)>>,
                      <<"run", runNameOf(run.runId)>>,
                      <<"suite", run.suiteId>>},
     logger |-> [hostname |-> benchmarkHostOf(run.runId),
                 blob |-> encodeLog(benchmarkHostOf(run.runId))]]

\* workersOf with the benchmark container requested first.
workersOfBenchmarkFirst(run) == <<benchmarkWorker(run), candidateWorker(run)>>

\* workersOf with the benchmark container never requested.
workersOfCandidateOnly(run) == <<candidateWorker(run)>>

\* The createWorker() calls run() issues once the secrets are written.
workersOf(run) == <<candidateWorker(run), benchmarkWorker(run)>>

\* run(candidateId, suiteId) is called: it logs the call and awaits
\* loadSuite().
RunCall(r, candidateId, suiteId) ==
    /\ runs[r].pc = "idle"
    /\ \A q \in DOMAIN runs : q < r => runs[q].pc # "idle"
    /\ runs' = [runs EXCEPT ![r] =
                  [@ EXCEPT !.pc = "loadSuite", !.candidateId = candidateId,
                            !.suiteId = suiteId]]
    /\ logger' = logger (+) SetToBag({Line("run", candidateId, suiteId)})
    /\ UNCHANGED <<storage, createCalls, createOutcomes, created, workers,
                   repoVars, cloudVars, rpcVars>>

\* suiteError with the message of the candidate's catch block.
suiteErrorAsCandidate(l) == IF l.threw THEN CandidateNotFound ELSE ""

\* The error run() throws when loadSuite() fails.
suiteError(l) == IF l.threw THEN SuiteNotFound ELSE ""

\* loadSuite() settles: on failure, whatever made it fail, run() throws
\* from its catch block; else it awaits loadCandidate(). `cause` keeps the
\* error the catch block received and discards.
RunLoadSuite(r, fault) ==
    /\ runs[r].pc = "loadSuite"
    /\ LET l == loadSettles(loadSuite(runs[r].suiteId, storage, TRUE), fault)
       IN  runs' = [runs EXCEPT ![r] =
              IF suiteError(l) # ""
              THEN [@ EXCEPT !.pc = "threw", !.threw = suiteError(l),
                             !.cause = l.error,
                             !.reads = @ \cup {l.key},
                             !.steps = Append(@, "loadSuite")]
              ELSE [@ EXCEPT !.pc = "loadCandidate", !.suiteData = l.data,
                             !.reads = @ \cup {l.key},
                             !.steps = Append(@, "loadSuite")]]
    /\ UNCHANGED <<storage, logger, createCalls, createOutcomes, created,
                   workers, repoVars, cloudVars, rpcVars>>

\* loadCandidate() settles: on failure run() throws; else the benchmark ids
\* are compared, the run id is drawn, the secrets are decrypted and run()
\* awaits the write of spec.yaml to a new RamDisk.
RunLoadCandidate(r, fault) ==
    /\ runs[r].pc = "loadCandidate"
    /\ LET l == loadSettles(loadCandidate(runs[r].candidateId, storage, TRUE),
                            fault)
           d == decryptSecrets(l.data)
       IN  IF l.threw
           THEN /\ runs' = [runs EXCEPT ![r] =
                      [@ EXCEPT !.pc = "threw",
                                !.threw = CandidateNotFound,
                                !.cause = l.error,
                                !.reads = @ \cup {l.key},
                                !.steps = Append(@, "loadCandidate")]]
                /\ UNCHANGED logger
           ELSE IF ~benchmarksMatch(runs[r].suiteData, l.data)
           THEN /\ runs' = [runs EXCEPT ![r] =
                      [@ EXCEPT !.pc = "threw",
                                !.threw = BenchmarkMismatch,
                                !.candidateData = l.data,
                                !.reads = @ \cup {l.key},
                                !.steps = @ \o <<"loadCandidate",
                                                 "compare benchmarkId">>]]
                /\ logger' = logger (+) SetToBag(
                      {Line(BenchmarkMismatch, "", "")})
           ELSE /\ \E runId \in FreshRunIds :
                      runs' = [runs EXCEPT ![r] =
                         IF d.threw
                         THEN [@ EXCEPT !.pc = "threw",
                                        !.threw = DecryptFailed,
                                        !.candidateData = l.data,
                                        !.runId = runId,
                                        !.reads = @ \cup {l.key},
                                        !.steps = @ \o <<"loadCandidate",
                                                         "compare benchmarkId",
                                                         "createRunId",
                                                         "decryptSecrets">>]
                         ELSE [@ EXCEPT !.pc = "writeSecrets",
                                        !.candidateData = d.data,
                                        !.runId = runId,
                                        !.secrets = secretsDisk(d.data),
                                        !.disk = newRamDisk(r),
                                        !.reads = @ \cup {l.key},
                                        !.steps = @ \o <<"loadCandidate",
                                                         "compare benchmarkId",
                                                         "createRunId",
                                                         "decryptSecrets">>]]
                /\ UNCHANGED logger
    /\ UNCHANGED <<storage, createCalls, createOutcomes, created, workers,
                   repoVars, cloudVars, rpcVars>>

\* The step of run() that a createWorker() call is: the candidate's host
\* names start with 'c', the benchmark's with 'b'.
requestStep(worker) ==
    IF worker.hostname[1] = "c" THEN "createWorker candidate"
    ELSE "createWorker benchmark"

\* The steps run() takes once the write of spec.yaml has settled: the
\* createWorker() calls, in the order it makes them.
requestSteps(ws) ==
    <<"writeBlob spec.yaml">> \o [i \in 1..Len(ws) |-> requestStep(ws[i])]

\* issued with an await of the workers before run() returns.
issuedAwaiting(run) == [run EXCEPT !.pc = "awaitWorkers"]

\* run() once both createWorker() calls are issued: neither promise is
\* awaited and run() falls off its end.
issued(run) == [run EXCEPT !.pc = "returned"]

\* The write of spec.yaml has settled: run() logs and issues the two
\* createWorker() calls, awaiting neither, and returns.
RunStartWorkers(r) ==
    /\ runs[r].pc = "writeSecrets"
    /\ workers' = [workers EXCEPT ![r] = @ \o workersOf(runs[r])]
    /\ logger' = logger (+) SetToBag(
          {Line("Starting candidate", runs[r].candidateId,
                candidateHostOf(runs[r].runId)),
           Line("Starting benchmark", runs[r].suiteData.benchmarkId,
                benchmarkHostOf(runs[r].runId))})
    /\ runs' = [runs EXCEPT ![r] =
                  [issued(@) EXCEPT
                      !.steps = @ \o requestSteps(workersOf(runs[r]))]]
    /\ UNCHANGED <<storage, createCalls, createOutcomes, created, repoVars,
                   cloudVars, rpcVars>>

\* ------------------------------------------------------------- orchestrator
\* How a createWorker() call may settle: the worker starts on its host, or
\* the call fails.
Outcomes == {"started", "failed"}

\* IOrchestrator.createWorker() is asynchronous: the call returns a promise
\* at once, and settles later with one of the outcomes.
createWorkerSettled(orch, hostname, outcome) == (hostname :> outcome) @@ orch

\* The createWorker() calls of run slot r that have not settled.
Pending(r) ==
    {i \in 1..Len(workers[r]) : workers[r][i].hostname \notin DOMAIN orchestrator}

\* A createWorker() call of run() settles. run() kept neither promise: no
\* continuation and no catch handler is attached, so the outcome reaches
\* neither the caller of run() nor the log.
WorkerSettle(r, i, outcome) ==
    /\ i \in Pending(r)
    /\ orchestrator' =
          createWorkerSettled(orchestrator, workers[r][i].hostname, outcome)
    /\ UNCHANGED <<storage, labVars, repoVars, rpcVars, hostVars>>

\* ------------------------------------------------- Laboratory.entryPoint
\* The simulated server startup time, in seconds.
startupDelaySeconds == 9

\* secrets.generateKeys(): a new key pair.
KeyPairs ==
    {[publicKey |-> "public1", privateKey |-> "private1"],
     [publicKey |-> "public2", privateKey |-> "private2"]}
NoKeys == [publicKey |-> "", privateKey |-> ""]

\* The ports the environment of the host may configure.
Ports == {8080, 8081}

\* The host before `einstein deploy`.
NoService ==
    [pc |-> "undeployed", since |-> 0, port |-> 0, keys |-> NoKeys,
     log |-> <<>>]

\* slept with no startup delay.
sleptAtOnce(now, since) == TRUE

\* sleep(startupDelaySeconds * 1000) has elapsed.
slept(now, since) == now - since >= startupDelaySeconds

\* A second goes by.
Tick ==
    /\ clock < MaxClock
    /\ clock' = clock + 1
    /\ UNCHANGED <<storage, labVars, repoVars, rpcVars, orchestrator,
                   service, services, keyCalls, keyReplies>>

\* `einstein deploy`: the orchestrator runs Laboratory.entryPoint() on the
\* host, with `port` in its environment; entryPoint() logs and awaits
\* sleep().
Deploy(port) ==
    /\ service.pc = "undeployed"
    /\ service' = [service EXCEPT
                     !.pc = "sleeping", !.since = clock, !.port = port,
                     !.log = @ \o <<"Labratory.entryPoint()", "sleeping">>]
    /\ UNCHANGED <<storage, labVars, repoVars, rpcVars, orchestrator, clock,
                   services, keyCalls, keyReplies>>

\* sleep() settles: entryPoint() generates the keys, constructs the
\* Laboratory with them and binds it to the port of the environment.
Wake(keys) ==
    /\ service.pc = "sleeping"
    /\ slept(clock, service.since)
    /\ service' = [service EXCEPT
                     !.pc = "bound", !.keys = keys,
                     !.log = @ \o <<"woke up", "Labratory service running">>]
    /\ services' = services \cup {<<"lab", service.port>>}
    /\ UNCHANGED <<storage, labVars, repoVars, rpcVars, orchestrator, clock,
                   keyCalls, keyReplies>>

\* What getPublicKey() returns: this.keys.publicKey.
publicKeyOf(keys) == keys.publicKey

\* A getPublicKey() call by a client: it reaches the Laboratory when the
\* service is bound, and finds no service before.
GetPublicKey ==
    /\ keyCalls < MaxKeyCalls
    /\ keyCalls' = keyCalls + 1
    /\ keyReplies' = keyReplies \cup
          {IF <<"lab", service.port>> \in services
           THEN [served |-> TRUE, key |-> publicKeyOf(service.keys),
                 at |-> keyCalls + 1]
           ELSE [served |-> FALSE, key |-> "", at |-> keyCalls + 1]}
    /\ UNCHANGED <<storage, labVars, repoVars, rpcVars, orchestrator, clock,
                   service, services>>

\* --------------------------------------------------------------- Repository
\* LocalDatabase.ensureTable(name, columns): creates the table when there is
\* none of that name.
ensureTable(db, name, columns) ==
    IF name \in DOMAIN db THEN db
    ELSE (name :> [columns |-> columns, rows |-> <<>>]) @@ db

\* LocalDatabase.insert(name, row): appends the row to the table.
insert(db, name, row) ==
    [db EXCEPT ![name] = [@ EXCEPT !.rows = Append(@, row)]]

benchmarkTableName == "benchmarks"

\* The schema processBenchmark() ensures for the benchmarks table.
benchmarkColumns ==
    <<[name |-> "image", type |-> "string"],
      [name |-> "name", type |-> "string"],
      [name |-> "owner", type |-> "string"],
      [name |-> "created", type |-> "string"]>>

\* The row processBenchmark() inserts for a benchmark.
benchmarkRow(benchmark) ==
    <<benchmark.image, benchmark.name, benchmark.owner, benchmark.created>>

\* A crawlBlobs() call not yet made.
NoCrawl ==
    [pc |-> "idle", blobs |-> <<>>, index |-> 1, benchmark |-> NoData,
     handled |-> <<>>]

\* The orders in which listBlobs() may give the names of S.
Listings(S) ==
    {l \in [1..Cardinality(S) -> S] :
        \A i, j \in 1..Cardinality(S) : l[i] = l[j] => i = j}

\* The blob crawl c is at.
blobOf(crawl) == crawl.blobs[crawl.index]

\* initialize(): calls crawlBlobs() without awaiting it and returns;
\* crawlBlobs() runs to its await of listBlobs().
Initialize(c) ==
    /\ crawls[c].pc = "idle"
    /\ \A q \in DOMAIN crawls : q < c => crawls[q].pc # "idle"
    /\ crawls' = [crawls EXCEPT ![c] = [@ EXCEPT !.pc = "listBlobs"]]
    /\ console' = console (+) SetToBag({Line("repository: beginning crawl",
                                             "", "")})
    /\ UNCHANGED <<storage, labVars, cloudVars, rpcVars, database, benchmarkCache,
                   storageReads>>

\* listBlobs() settles with the blob names, in some order.
CrawlListBlobs(c) ==
    /\ crawls[c].pc = "listBlobs"
    /\ \E blobs \in Listings(listBlobs(storage)) :
          crawls' = [crawls EXCEPT ![c] =
                        [@ EXCEPT !.pc = "dispatch", !.blobs = blobs,
                                  !.index = 1]]
    /\ UNCHANGED <<storage, labVars, cloudVars, rpcVars, database, benchmarkCache,
                   storageReads, console>>

\* handlerOf with the cases of suites and runs exchanged.
handlerOfExchanged(collection) ==
    CASE collection = "benchmarks" -> "processBenchmark"
      [] collection = "candidates" -> "processCandidate"
      [] collection = "suites" -> "processRun"
      [] collection = "runs" -> "processSuite"
      [] OTHER -> ""

\* The handler crawlBlobs() calls for a blob of `collection`; none for a
\* blob of no collection.
handlerOf(collection) ==
    CASE collection = "benchmarks" -> "processBenchmark"
      [] collection = "candidates" -> "processCandidate"
      [] collection = "suites" -> "processSuite"
      [] collection = "runs" -> "processRun"
      [] OTHER -> ""

\* The handler calls of a crawl, with the call for `blob` added: the default
\* case of the switch calls nothing.
handledWith(handled, blob) ==
    IF handlerOf(getCollection(blob)) = "" THEN handled
    ELSE Append(handled, <<handlerOf(getCollection(blob)), blob>>)

\* One turn of the loop of crawlBlobs(): the blob is classified and its
\* handler called. processBenchmark() logs and goes on to getBenchmark(),
\* which answers from the cache or awaits loadBenchmark();
\* processCandidate(), processSuite() and processRun() have empty bodies; a
\* blob of no collection is skipped.
CrawlDispatch(c) ==
    /\ crawls[c].pc = "dispatch"
    /\ LET crawl == crawls[c]
           called == [crawl EXCEPT
                        !.handled = handledWith(@, blobOf(crawl))]
       IN  IF crawl.index > Len(crawl.blobs)
           THEN /\ crawls' = [crawls EXCEPT ![c] = [crawl EXCEPT !.pc = "done"]]
                /\ UNCHANGED console
           ELSE IF handlerOf(getCollection(blobOf(crawl))) = "processBenchmark"
           THEN /\ crawls' = [crawls EXCEPT ![c] =
                      IF blobOf(crawl) \in DOMAIN benchmarkCache
                      THEN [called EXCEPT !.pc = "ensureTable",
                               !.benchmark = benchmarkCache[blobOf(crawl)]]
                      ELSE [called EXCEPT !.pc = "loadBenchmark"]]
                /\ console' = console (+) SetToBag(
                      {Line("repository: processBenchmark", blobOf(crawl), "")})
           ELSE /\ crawls' = [crawls EXCEPT ![c] =
                                [called EXCEPT !.index = @ + 1]]
                /\ UNCHANGED console
    /\ UNCHANGED <<storage, labVars, cloudVars, rpcVars, database, benchmarkCache,
                   storageReads>>

\* loadBenchmark(blob, cloudStorage, false) settles: the description is put
\* in the cache, and processBenchmark() awaits ensureTable(). When the load
\* fails, getBenchmark(), processBenchmark() and crawlBlobs() reject in turn
\* (none has a catch block) and initialize() has dropped the promise: the
\* crawl stops where it is. storageReads counts the reads that gave a blob.
CrawlLoadBenchmark(c, fault) ==
    /\ crawls[c].pc = "loadBenchmark"
    /\ LET l == loadSettles(loadBenchmark(blobOf(crawls[c]), storage, FALSE),
                            fault)
       IN  IF l.threw
           THEN /\ crawls' = [crawls EXCEPT ![c] = [@ EXCEPT !.pc = "threw"]]
                /\ UNCHANGED <<benchmarkCache, storageReads>>
           ELSE /\ storageReads' = storageReads (+) SetToBag({l.key})
                /\ benchmarkCache' = (l.key :> l.data) @@ benchmarkCache
                /\ crawls' = [crawls EXCEPT ![c] =
                      [@ EXCEPT !.pc = "ensureTable", !.benchmark = l.data]]
    /\ UNCHANGED <<storage, labVars, cloudVars, rpcVars, database, console>>

\* ensureTable() settles; processBenchmark() awaits insert().
CrawlEnsureTable(c) ==
    /\ crawls[c].pc = "ensureTable"
    /\ database' = ensureTable(database, benchmarkTableName, benchmarkColumns)
    /\ crawls' = [crawls EXCEPT ![c] = [@ EXCEPT !.pc = "insert"]]
    /\ UNCHANGED <<storage, labVars, cloudVars, rpcVars, benchmarkCache, storageReads,
                   console>>

\* insert() settles; processBenchmark() returns and the loop goes on.
CrawlInsert(c) ==
    /\ crawls[c].pc = "insert"
    /\ database' = insert(database, benchmarkTableName,
                          benchmarkRow(crawls[c].benchmark))
    /\ crawls' = [crawls EXCEPT ![c] =
                     [@ EXCEPT !.pc = "dispatch", !.index = @ + 1,
                               !.benchmark = NoData]]
    /\ UNCHANGED <<storage, labVars, cloudVars, rpcVars, benchmarkCache, storageReads,
                   console>>

\* --------------------------------------------------------- Repository.select
\* LocalDatabase.getColumns(name): the column specifications of the table;
\* fails when there is no table of that name.
getColumns(db, name) ==
    IF name \in DOMAIN db
    THEN [threw |-> FALSE, columns |-> db[name].columns]
    ELSE [threw |-> TRUE, columns |-> <<>>]

\* LocalDatabase.select(name): the rows of the table; fails when there is
\* no table of that name.
selectRows(db, name) ==
    IF name \in DOMAIN db
    THEN [threw |-> FALSE, rows |-> db[name].rows]
    ELSE [threw |-> TRUE, rows |-> <<>>]

\* The tables a caller asks for: the one processBenchmark() fills, and one
\* no handler creates.
Tables == {benchmarkTableName, "candidates"}

\* The crawls whose initialize() call has returned: initialize() returns as
\* soon as crawlBlobs() reaches its first await.
Initialized == {c \in DOMAIN crawls : crawls[c].pc # "idle"}

\* A select() call not yet made. `before` keeps the rows the table held
\* when the call was made, `initialized` the initialize() calls that had
\* returned by then.
NoSelect ==
    [pc |-> "idle", from |-> "", columns |-> <<>>, rows |-> <<>>,
     before |-> <<>>, initialized |-> {}, result |-> <<>>]

\* select with the rows left out of what it returns.
selectResultNoRows(columns, rows) == [columns |-> columns, rows |-> <<>>]

\* What select() returns: { columns, rows }.
selectResult(columns, rows) == [columns |-> columns, rows |-> rows]

\* select(from) is called: it calls database.getColumns(from) and awaits it.
SelectCall(q, from) ==
    /\ selects[q].pc = "idle"
    /\ \A p \in DOMAIN selects : p < q => selects[p].pc # "idle"
    /\ LET g == getColumns(database, from)
       IN  selects' = [selects EXCEPT ![q] =
              [@ EXCEPT !.pc = IF g.threw THEN "rejected" ELSE "getColumns",
                        !.from = from,
                        !.columns = g.columns,
                        !.before = selectRows(database, from).rows,
                        !.initialized = Initialized]]
    /\ UNCHANGED <<storage, labVars, repoVars, cloudVars>>

\* getColumns() settles: on failure select() rejects; else it calls
\* database.select(from) and awaits it.
SelectColumns(q) ==
    /\ selects[q].pc \in {"rejected", "getColumns"}
    /\ LET sel == selects[q]
           r == selectRows(database, sel.from)
       IN  selects' = [selects EXCEPT ![q] =
              IF sel.pc = "rejected" \/ r.threw
              THEN [sel EXCEPT !.pc = "threw"]
              ELSE [sel EXCEPT !.pc = "select", !.rows = r.rows]]
    /\ UNCHANGED <<storage, labVars, repoVars, cloudVars>>

\* database.select() settles: select() returns { columns, rows }.
SelectRows(q) ==
    /\ selects[q].pc = "select"
    /\ LET sel == selects[q]
       IN  selects' = [selects EXCEPT ![q] =
              [sel EXCEPT !.pc = "returned",
                          !.result = selectResult(sel.columns, sel.rows)]]
    /\ UNCHANGED <<storage, labVars, repoVars, cloudVars>>

\* The blobs cloud storage may hold when the Repository starts: benchmarks
\* as create() writes them, the results of a run (its handler is a stub, as
\* are those of candidates and suites) and a worker's log, which belongs to
\* no collection.
RepoBlobs ==
    [k \in {encodeBenchmark(n) : n \in Names} |->
        safeDump([kind |-> "benchmark", name |-> "a benchmark",
                  owner |-> "o1", created |-> "t0", image |-> k[2]])]
    @@ (<<"runs", "r1">> :>
        safeDump([kind |-> "run", name |-> "a run", owner |-> "o1",
                  created |-> "t0"]))
    @@ (encodeLog("c1") :> <<<<"log", "line">>>>)

\* Blobs in storage while the Repository is observed.
MaxBlobs == 2

RepoStorages ==
    {[k \in S |-> RepoBlobs[k]] :
        S \in {T \in SUBSET DOMAIN RepoBlobs : Cardinality(T) <= MaxBlobs}}

\* ------------------------------------------------------- the Laboratory
\* The Repository as constructed, with `slots` initialize() calls to come.
RepoIdle(slots) ==
    /\ database = [t \in {} |-> <<>>]
    /\ benchmarkCache = [k \in {} |-> <<>>]
    /\ storageReads = EmptyBag
    /\ crawls = [c \in slots |-> NoCrawl]
    /\ console = EmptyBag

\* The Laboratory as constructed, with `slots` run() invocations to come.
LabIdle(slots) ==
    /\ logger = EmptyBag
    /\ createCalls = 0
    /\ createOutcomes = EmptyBag
    /\ created = {}
    /\ runs = [r \in slots |-> IdleRun]
    /\ workers = [r \in slots |-> <<>>]

\* The orchestrator with no createWorker() call settled, and the host 'lab'
\* with nothing deployed to it.
CloudIdle ==
    /\ orchestrator = [h \in {} |-> ""]
    /\ clock = 0
    /\ service = NoService
    /\ services = {}
    /\ keyCalls = 0
    /\ keyReplies = {}

\* No call in flight, with `slots` select() calls to come.
RpcIdle(slots) == selects = [q \in slots |-> NoSelect]

Init ==
    /\ storage = NoBlobs
    /\ LabIdle(RunSlots)
    /\ RepoIdle(CrawlSlots)
    /\ CloudIdle
    /\ RpcIdle({})

RunNext ==
    \/ \E r \in DOMAIN runs, candidateId \in Names, suiteId \in Names :
          RunCall(r, candidateId, suiteId)
    \/ \E r \in DOMAIN runs, fault \in BOOLEAN : RunLoadSuite(r, fault)
    \/ \E r \in DOMAIN runs, fault \in BOOLEAN : RunLoadCandidate(r, fault)
    \/ \E r \in DOMAIN runs : RunStartWorkers(r)

Next ==
    \/ \E description \in AnyDescription : Create(description)
    \/ RunNext

Spec == Init /\ [][Next]_vars

\* ------------------------------------------------- overlapping run() calls
\* The storages create() leaves once a suite and a candidate of every name
\* have been submitted.
FilledStorages ==
    {[k \in {encodeSuite(n) : n \in Names} \cup {encodeCandidate(n) : n \in Names}
        |-> safeDump(IF getCollection(k) = "suites" THEN suites[k[2]]
                     ELSE candidates[k[2]])] :
        suites \in {f \in [Names -> SuiteDescriptions] :
                        \A n \in Names : f[n].name = n},
        candidates \in {f \in [Names -> CandidateDescriptions] :
                        \A n \in Names : f[n].image = n}}

ConcurrentInit ==
    /\ storage \in FilledStorages
    /\ LabIdle(ConcurrentSlots)
    /\ RepoIdle(CrawlSlots)
    /\ CloudIdle
    /\ RpcIdle({})

ConcurrentSpec == ConcurrentInit /\ [][RunNext]_vars

\* ---------------------------------------------- run() and its two workers
WorkerInit ==
    /\ storage \in FilledStorages
    /\ LabIdle(WorkerSlots)
    /\ RepoIdle(CrawlSlots)
    /\ CloudIdle
    /\ RpcIdle({})

WorkerNext ==
    \/ RunNext
    \/ \E r \in DOMAIN runs, i \in 1..2, outcome \in Outcomes :
          WorkerSettle(r, i, outcome)

WorkerSpec == WorkerInit /\ [][WorkerNext]_vars

\* ------------------------------------------------------- the Repository
RepoInit ==
    /\ storage \in RepoStorages
    /\ LabIdle(RunSlots)
    /\ RepoIdle(CrawlSlots)
    /\ CloudIdle
    /\ RpcIdle({})

RepoNext ==
    \/ \E c \in DOMAIN crawls : Initialize(c)
    \/ \E c \in DOMAIN crawls : CrawlListBlobs(c)
    \/ \E c \in DOMAIN crawls : CrawlDispatch(c)
    \/ \E c \in DOMAIN crawls, fault \in BOOLEAN : CrawlLoadBenchmark(c, fault)
    \/ \E c \in DOMAIN crawls : CrawlEnsureTable(c)
    \/ \E c \in DOMAIN crawls : CrawlInsert(c)

RepoSpec == RepoInit /\ [][RepoNext]_vars

\* -------------------------------------- one crawl, followed to its end
\* A blob of every collection, and a worker's log.
SweepBlobs ==
    (encodeBenchmark("n1") :> RepoBlobs[encodeBenchmark("n1")])
    @@ (encodeCandidate("n1") :>
        safeDump([kind |-> "candidate", name |-> "a candidate",
                  owner |-> "o1", created |-> "t0", image |-> "n1",
                  benchmarkId |-> "n1", secret |-> "cipher"]))
    @@ (encodeSuite("n1") :>
        safeDump([kind |-> "suite", name |-> "n1", owner |-> "o1",
                  created |-> "t0", benchmarkId |-> "n1"]))
    @@ (<<"runs", "r1">> :> RepoBlobs[<<"runs", "r1">>])
    @@ (encodeLog("c1") :> RepoBlobs[encodeLog("c1")])

SweepStorages ==
    {[k \in S |-> SweepBlobs[k]] :
        S \in {T \in SUBSET DOMAIN SweepBlobs : Cardinality(T) <= MaxSwept}}

SweepInit ==
    /\ storage \in SweepStorages
    /\ LabIdle(RunSlots)
    /\ RepoIdle(SweepSlots)
    /\ CloudIdle
    /\ RpcIdle({})

\* A step of crawl c: the continuation of the call it awaits.
CrawlStep(c) ==
    \/ CrawlListBlobs(c)
    \/ CrawlDispatch(c)
    \/ \E fault \in BOOLEAN : CrawlLoadBenchmark(c, fault)
    \/ CrawlEnsureTable(c)
    \/ CrawlInsert(c)

\* The event loop runs the continuation of every call that has settled.
SweepSpec ==
    /\ SweepInit
    /\ [][RepoNext]_vars
    /\ \A c \in SweepSlots : WF_vars(CrawlStep(c))

\* ------------------------------------- the Repository, queried as it crawls
\* The storages that hold benchmark blobs only: the blobs whose handler
\* writes to the database.
QueryStorages ==
    {[k \in S |-> RepoBlobs[k]] :
        S \in SUBSET {encodeBenchmark(n) : n \in Names}}

QueryInit ==
    /\ storage \in QueryStorages
    /\ LabIdle(RunSlots)
    /\ RepoIdle(QueryCrawlSlots)
    /\ CloudIdle
    /\ RpcIdle(SelectSlots)

SelectNext ==
    \/ \E q \in DOMAIN selects, from \in Tables : SelectCall(q, from)
    \/ \E q \in DOMAIN selects : SelectColumns(q)
    \/ \E q \in DOMAIN selects : SelectRows(q)

QueryNext == RepoNext \/ SelectNext

QuerySpec == QueryInit /\ [][QueryNext]_vars

\* ------------------------------------------- the Laboratory being deployed
ServiceNext ==
    \/ Tick
    \/ \E port \in Ports : Deploy(port)
    \/ \E keys \in KeyPairs : Wake(keys)
    \/ GetPublicKey

ServiceSpec == Init /\ [][ServiceNext]_vars

\* ------------------------------------------------------------------ claims
\* The run() invocations that have settled both loads.
Loaded(run) == run.suiteData # NoData /\ run.candidateData # NoData

\* C1: a run() whose suite and candidate both exist in storage with
\* different benchmarkId values throws the benchmark-mismatch error, has
\* logged it, and has issued no createWorker() call.
C1_BenchmarkMismatchFails ==
    /\ \A r \in DOMAIN runs :
          LET run == runs[r]
          IN  Loaded(run) =>
                /\ run.suiteData = safeLoad(storage[encodeSuite(run.suiteId)])
                /\ run.candidateData.benchmarkId =
                      safeLoad(storage[encodeCandidate(run.candidateId)]).benchmarkId
                /\ run.suiteData.benchmarkId # run.candidateData.benchmarkId =>
                      /\ run.pc = "threw"
                      /\ run.threw = BenchmarkMismatch
                      /\ workers[r] = <<>>
    /\ CopiesIn(Line(BenchmarkMismatch, "", ""), logger) =
          Cardinality({r \in DOMAIN runs : runs[r].threw = BenchmarkMismatch})

C1_Witness ==
    \E r \in DOMAIN runs :
        /\ runs[r].threw = BenchmarkMismatch
        /\ encodeSuite(runs[r].suiteId) \in DOMAIN storage
        /\ encodeCandidate(runs[r].candidateId) \in DOMAIN storage

\* C2: a run() whose suite has no blob in storage throws the
\* suite-not-found error having read nothing but the suite's key: the
\* candidate is not loaded, whether or not it exists. A run() that got past
\* the suite load did find the suite's blob.
C2_MissingSuiteFailsFirst ==
    \A r \in DOMAIN runs :
        LET run == runs[r]
        IN  run.pc \notin {"idle", "loadSuite"} =>
              IF run.suiteData = NoData
              THEN /\ run.pc = "threw"
                   /\ run.threw = SuiteNotFound
                   /\ run.reads = {encodeSuite(run.suiteId)}
                   /\ run.candidateData = NoData
                   /\ workers[r] = <<>>
              ELSE /\ encodeSuite(run.suiteId) \in DOMAIN storage
                   /\ run.threw # SuiteNotFound

C2_Witness ==
    \E r \in DOMAIN runs :
        /\ runs[r].threw = SuiteNotFound
        /\ encodeCandidate(runs[r].candidateId) \in DOMAIN storage

\* The host names of the createWorker() calls of run slot r.
HostsOf(r) == {workers[r][i].hostname : i \in 1..Len(workers[r])}

\* C3: any two run() invocations, however their steps interleave, hold
\* distinct run ids; once both have returned they have issued four
\* createWorker() calls, two each, on four pairwise distinct hosts
\* 'c'+runId and 'b'+runId.
C3_ConcurrentRunsDistinct ==
    \A r, q \in DOMAIN runs :
        r # q =>
          /\ runs[r].runId # 0 /\ runs[q].runId # 0 =>
                runs[r].runId # runs[q].runId
          /\ runs[r].pc = "returned" /\ runs[q].pc = "returned" =>
                /\ Len(workers[r]) + Len(workers[q]) = 4
                /\ Len(workers[r]) = 2
                /\ HostsOf(r) = {<<"c", runs[r].runId>>, <<"b", runs[r].runId>>}
                /\ HostsOf(q) = {<<"c", runs[q].runId>>, <<"b", runs[q].runId>>}
                /\ Cardinality(HostsOf(r) \cup HostsOf(q)) = 4

C3_Witness ==
    \E r, q \in DOMAIN runs :
        /\ runs[r].pc = "returned"
        /\ runs[q].pc = "returned"
        /\ runs[r].candidateId # runs[q].candidateId
        /\ Cardinality(HostsOf(r) \cup HostsOf(q)) = 4

\* C4: a run(C, S) that returned with run id R has issued exactly two
\* createWorker() calls. The first: host 'c'+R, the candidate's image, one
\* volume mounted at /secrets whose spec.yaml holds the stored candidate
\* manifest with its secret decrypted, an empty environment. The second:
\* host 'b'+R, the benchmark's image, no volume, and the environment
\* candidate=C, host='c'+R, run='r'+R, suite=S. Each logger writes to the
\* log blob of its own host.
C4_RunWorkers ==
    \A r \in DOMAIN runs :
        runs[r].pc = "returned" =>
          LET run == runs[r]
              R == run.runId
              stored == safeLoad(storage[encodeCandidate(run.candidateId)])
              c == workers[r][1]
              b == workers[r][2]
          IN  /\ Len(workers[r]) = 2
              /\ c.hostname = <<"c", R>>
              /\ c.tag = stored.image
              /\ Len(c.volumes) = 1
              /\ c.volumes[1].mount = "/secrets"
              /\ DOMAIN c.volumes[1].storage = {"spec.yaml"}
              /\ safeLoad(c.volumes[1].storage["spec.yaml"]) =
                    [stored EXCEPT !.secret = "plain"]
              /\ c.environment = {}
              /\ c.logger = [hostname |-> <<"c", R>>, blob |-> <<"logs", <<"c", R>>>>]
              /\ b.hostname = <<"b", R>>
              /\ b.tag = stored.benchmarkId
              /\ encodeBenchmark(b.tag) \in DOMAIN storage =>
                    safeLoad(storage[encodeBenchmark(b.tag)]).image = b.tag
              /\ b.volumes = <<>>
              /\ b.environment = {<<"candidate", run.candidateId>>,
                                  <<"host", <<"c", R>>>>,
                                  <<"run", <<"r", R>>>>,
                                  <<"suite", run.suiteId>>}
              /\ b.logger = [hostname |-> <<"b", R>>, blob |-> <<"logs", <<"b", R>>>>]

C4_Witness ==
    \E r \in DOMAIN runs :
        /\ runs[r].pc = "returned"
        /\ Len(workers[r]) = 2
        /\ workers[r][1].volumes[1].storage["spec.yaml"] =
              safeDump(runs[r].candidateData)
        /\ runs[r].candidateData.secret = "plain"

\* C5: a run() that threw (suite or candidate not found, benchmark
\* mismatch, decryption failure) has issued no createWorker() call, a run()
\* that returned has issued both, and in no state has a run() issued
\* exactly one.
C5_AllOrNothing ==
    \A r \in DOMAIN runs :
        /\ runs[r].pc = "threw" =>
              /\ workers[r] = <<>>
              /\ runs[r].threw \in {SuiteNotFound, CandidateNotFound,
                                    BenchmarkMismatch, DecryptFailed}
        /\ runs[r].pc = "returned" => Len(workers[r]) = 2 /\ runs[r].threw = ""
        /\ runs[r].pc # "returned" => workers[r] = <<>>

C5_Witness ==
    \E r \in DOMAIN runs :
        /\ runs[r].threw = DecryptFailed
        /\ runs[r].runId # 0
        /\ workers[r] = <<>>

\* The step is a create() call that gave its caller the outcome o.
CreateOutcome(o) ==
    /\ createCalls' # createCalls
    /\ CopiesIn(o, createOutcomes') = CopiesIn(o, createOutcomes) + 1

BenchmarkRows ==
    IF benchmarkTableName \in DOMAIN database
    THEN database[benchmarkTableName].rows ELSE <<>>

\* The benchmark blobs in storage.
BenchmarkBlobs == {k \in DOMAIN storage : getCollection(k) = "benchmarks"}

\* Every crawl that was started is done, and there were `n` of them.
CrawlsDone(n) ==
    /\ Cardinality({c \in DOMAIN crawls : crawls[c].pc = "done"}) = n
    /\ \A c \in DOMAIN crawls : crawls[c].pc \in {"idle", "done"}

\* C8: after initialize() has run twice to completion over an unchanged
\* storage, the benchmarks table holds exactly one row per benchmark blob,
\* none twice.
C8_CrawlIdempotent ==
    CrawlsDone(2) =>
        /\ Len(BenchmarkRows) = Cardinality(BenchmarkBlobs)
        /\ \A i, j \in 1..Len(BenchmarkRows) :
              BenchmarkRows[i] = BenchmarkRows[j] => i = j

\* C9: whatever the listing order, a crawl that is done has recorded every
\* run blob it listed: in a runs table or among the orphans.
C9_RunNotLost ==
    \A c \in DOMAIN crawls :
        crawls[c].pc = "done" =>
          \A i \in 1..Len(crawls[c].blobs) :
              getCollection(crawls[c].blobs[i]) = "runs" =>
                \E t \in DOMAIN database \cap {"runs", "orphans"} :
                    Len(database[t].rows) > 0

\* C10: a create() of a description of no supported kind throws the
\* unsupported-kind error, adds one line to the log and writes no blob.
C10_UnsupportedKind ==
    [][\A o \in BagToSet(createOutcomes') :
          CreateOutcome(o) /\ o.kind \notin SupportedKinds =>
              /\ o.error = "TypeError: unsupported kind"
              /\ storage' = storage
              /\ created' = created
              /\ logger' = logger (+) SetToBag(
                    {Line("Laboratory.create(): unsupported kind", o.kind, "")})]_vars

C10_Witness ==
    /\ \E o \in BagToSet(createOutcomes) :
          /\ o.kind \notin SupportedKinds
          /\ o.error = "TypeError: unsupported kind"
          /\ CopiesIn(Line("Laboratory.create(): unsupported kind", o.kind, ""),
                      logger) > 0
    /\ DOMAIN storage # {}
\* The host of a run's worker has settled with `outcome`.
Settled(hostname, outcome) ==
    hostname \in DOMAIN orchestrator /\ orchestrator[hostname] = outcome

\* C11: run() has returned in every state where its two createWorker()
\* calls are issued, whatever has become of the workers: it returns while
\* both calls are still pending, and the calls then settle in either
\* order, so that the benchmark worker may be started while the candidate
\* worker is not.
C11_RunDoesNotWait ==
    /\ \A r \in DOMAIN runs :
          /\ Len(workers[r]) = 2 <=> runs[r].pc = "returned"
          /\ runs[r].pc = "returned" /\ Pending(r) = {1, 2} =>
                ENABLED WorkerSettle(r, 2, "started")
    /\ DOMAIN orchestrator \subseteq
          UNION {{workers[r][i].hostname : i \in 1..Len(workers[r])} :
                    r \in DOMAIN runs}

C11_Witness ==
    \E r \in DOMAIN runs :
        /\ runs[r].pc = "returned"
        /\ Settled(benchmarkHostOf(runs[r].runId), "started")
        /\ Pending(r) = {1}
\* The crawls that have stopped: crawlBlobs() ran off its loop, or rejected.
Stopped(crawl) == crawl.pc \in {"done", "threw"}

\* C12: a crawl in which the processing of a blob failed has logged the
\* failure and gone on: every crawl that has stopped has been through all
\* the blobs it listed, and the failures it met are on the console.
C12_CrawlSurvivesFailure ==
    \A c \in DOMAIN crawls :
        LET crawl == crawls[c]
        IN  /\ Stopped(crawl) => crawl.index > Len(crawl.blobs)
            /\ crawl.pc = "threw" =>
                  \E line \in BagToSet(console) :
                      line[1] \notin {"repository: beginning crawl",
                                      "repository: processBenchmark"}
                      /\ line[2] = blobOf(crawl)
\* The lines run() logs when nothing fails, and for a benchmark mismatch.
RunLines == {"run", "Starting candidate", "Starting benchmark",
             BenchmarkMismatch}

\* C13: a createWorker() call of run() that failed is reported: the run()
\* that made it threw to its caller, or the log holds a line that is none
\* of the lines run() writes when its createWorker() calls succeed.
C13_WorkerFailureReported ==
    \A r \in DOMAIN runs :
        \A i \in 1..Len(workers[r]) :
            Settled(workers[r][i].hostname, "failed") =>
                \/ runs[r].threw # ""
                \/ \E line \in BagToSet(logger) : line[1] \notin RunLines
\* C14: a run() reports suite-not-found or candidate-not-found to its
\* caller only when the load failed because the blob is absent: a load that
\* failed on a fault of the store is reported as something else.
C14_NotFoundDistinct ==
    \A r \in DOMAIN runs :
        runs[r].threw \in {SuiteNotFound, CandidateNotFound} =>
            runs[r].cause = "not found"
\* The columns and rows of table `name`.
TableOf(db, name) == [columns |-> db[name].columns, rows |-> db[name].rows]

\* s is a prefix of t.
IsPrefix(s, t) == Len(s) <= Len(t) /\ \A i \in 1..Len(s) : s[i] = t[i]

ServiceStates ==
    /\ service.pc \in {"undeployed", "sleeping"} =>
          /\ services = {}
          /\ service.keys = NoKeys
          /\ \A reply \in keyReplies : ~reply.served
    /\ (service.pc = "sleeping"
          /\ clock - service.since < startupDelaySeconds) =>
          ~ENABLED (\E keys \in KeyPairs : Wake(keys))
    /\ service.pc = "bound" =>
          /\ clock - service.since >= startupDelaySeconds
          /\ service.keys \in KeyPairs
          /\ services = {<<"lab", service.port>>}
          /\ service.port \in Ports
          /\ (ENABLED GetPublicKey) <=> (keyCalls < MaxKeyCalls)
    /\ \A reply \in keyReplies :
          reply.served => /\ service.pc = "bound"
                          /\ reply.key = service.keys.publicKey

\* A step of the bound service keeps its binding and its keys; a step that
\* is a getPublicKey() call changes nothing but the caller's reply.
ServiceSteps ==
    /\ keyCalls' # keyCalls =>
          UNCHANGED <<storage, labVars, repoVars, rpcVars, orchestrator,
                      clock, service, services>>
    /\ service.pc = "bound" =>
          /\ service' = service /\ services' = services
          /\ keyCalls' # keyCalls =>
                \E reply \in keyReplies' \ keyReplies :
                    reply.served /\ reply.key = service.keys.publicKey

\* C16: the Laboratory is bound to no port, and serves no call, before its
\* startup delay has elapsed and its keys are generated; once bound it is
\* bound to the port configured, and every getPublicKey() call served
\* returns the public key of the one key pair generated. A getPublicKey()
\* call changes nothing but the caller's reply.
C16_BoundAfterStartup == []ServiceStates /\ [][ServiceSteps]_vars

C16_Witness ==
    /\ service.pc = "bound"
    /\ Cardinality({reply \in keyReplies : reply.served}) = 2
    /\ clock - service.since = startupDelaySeconds
\* The steps of run() in the order the specification documents them.
DocumentedOrder ==
    <<"loadSuite", "loadCandidate", "compare benchmarkId", "createRunId",
      "decryptSecrets", "writeBlob spec.yaml", "createWorker candidate",
      "createWorker benchmark">>

\* C17: the steps a run() invocation has taken are, in every state, the
\* first steps of the documented order, and all of them once it has
\* returned. The first createWorker() call is the candidate's and finds
\* the decrypted spec.yaml on its volume; the second is the benchmark's.
C17_StepsInOrder ==
    \A r \in DOMAIN runs :
        /\ IsPrefix(runs[r].steps, DocumentedOrder)
        /\ runs[r].pc = "returned" <=> runs[r].steps = DocumentedOrder
        /\ runs[r].pc = "writeSecrets" =>
              /\ Len(runs[r].steps) = 5
              /\ "spec.yaml" \in DOMAIN runs[r].secrets
        /\ workers[r] # <<>> =>
              /\ Len(workers[r]) = 2
              /\ workers[r][1].hostname = candidateHostOf(runs[r].runId)
              /\ workers[r][2].hostname = benchmarkHostOf(runs[r].runId)
              /\ safeLoad(workers[r][1].volumes[1].storage["spec.yaml"]).secret
                    = "plain"

C17_Witness ==
    \E r \in DOMAIN runs :
        /\ runs[r].pc = "returned"
        /\ Len(runs[r].steps) = Len(DocumentedOrder)
        /\ createCalls = MaxCreates
\* C18: over any number of crawls, however they interleave, no benchmark
\* blob is read from cloud storage more than once, and the cache keeps for
\* every blob read the description that read gave.
C18_CacheReadThrough ==
    \A k \in BagToSet(storageReads) :
        /\ CopiesIn(k, storageReads) <= 1
        /\ k \in DOMAIN benchmarkCache
        /\ benchmarkCache[k] = safeLoad(storage[k])

\* The crawl has called a handler and has not stopped.
Processing(crawl) == crawl.handled # <<>> /\ ~Stopped(crawl)

\* C20: the crawls of one Repository are serialized: no crawl calls a
\* handler while another crawl, having called one, has not stopped.
C20_CrawlsSerialized ==
    \A c, d \in DOMAIN crawls :
        c # d => ~(Processing(crawls[c]) /\ Processing(crawls[d]))
\* The handler the specification names for each collection.
HandlerFor ==
    [benchmarks |-> "processBenchmark", candidates |-> "processCandidate",
     suites |-> "processSuite", runs |-> "processRun"]

\* The place of blob k in the listing of a crawl.
PlaceOf(crawl, k) == CHOOSE i \in 1..Len(crawl.blobs) : crawl.blobs[i] = k

\* The blobs of a collection among the first n a crawl listed.
Collected(crawl, n) ==
    {crawl.blobs[i] : i \in {j \in 1..n : j <= Len(crawl.blobs)
                                 /\ crawl.blobs[j][1] \in DOMAIN HandlerFor}}

\* The handler calls of a crawl are those of the blobs it has been through:
\* one call for each blob of a collection, to the handler of the
\* collection, in the order of the listing; none for another blob.
DispatchedInOrder(crawl) ==
    /\ \A i \in 1..Len(crawl.handled) :
          /\ crawl.handled[i][2] \in listBlobs(storage)
          /\ crawl.handled[i][2][1] \in DOMAIN HandlerFor
          /\ crawl.handled[i][1] = HandlerFor[crawl.handled[i][2][1]]
    /\ \A i, j \in 1..Len(crawl.handled) :
          i < j => PlaceOf(crawl, crawl.handled[i][2])
                     < PlaceOf(crawl, crawl.handled[j][2])
    /\ {crawl.handled[i][2] : i \in 1..Len(crawl.handled)}
          \in {Collected(crawl, crawl.index - 1),
               Collected(crawl, crawl.index)}
    /\ crawl.pc = "done" =>
          /\ crawl.index = Len(crawl.blobs) + 1
          /\ {crawl.handled[i][2] : i \in 1..Len(crawl.handled)}
                = Collected(crawl, Len(crawl.blobs))

\* The listing of a crawl, once made, is the blobs of the store, each once,
\* and does not change.
ListedOnce(crawl) ==
    crawl.pc \notin {"idle", "listBlobs"} =>
        /\ {crawl.blobs[i] : i \in 1..Len(crawl.blobs)} = listBlobs(storage)
        /\ Len(crawl.blobs) = Cardinality(listBlobs(storage))

\* A step of crawl c over a blob of no collection changes neither the
\* database nor the cache and calls no handler; no step changes a listing
\* made.
SkipsOthers(c) ==
    /\ (crawls[c].pc = "dispatch" /\ crawls'[c] # crawls[c]
          /\ crawls[c].index <= Len(crawls[c].blobs)
          /\ blobOf(crawls[c])[1] \notin DOMAIN HandlerFor) =>
          /\ database' = database
          /\ benchmarkCache' = benchmarkCache
          /\ crawls'[c] = [crawls[c] EXCEPT !.index = @ + 1]
    /\ crawls[c].pc \notin {"idle", "listBlobs"} =>
          crawls'[c].blobs = crawls[c].blobs

\* C19: a crawl lists the store once; the handler calls it has made are
\* those of the blobs it has been through, one per blob of a collection,
\* to that collection's handler, in listing order; a blob of no collection
\* is passed over with no change to the database or the cache; and a crawl
\* that has started ends: done, with every listed blob dispatched, unless
\* a call it awaited failed.
C19_CrawlDispatchesAll ==
    /\ [](\A c \in SweepSlots :
             ListedOnce(crawls[c]) /\ DispatchedInOrder(crawls[c]))
    /\ [][\A c \in SweepSlots : SkipsOthers(c)]_vars
    /\ \A c \in SweepSlots :
          (crawls[c].pc = "listBlobs") ~> Stopped(crawls[c])

C19_Witness ==
    \E c \in SweepSlots :
        /\ crawls[c].pc = "done"
        /\ Len(crawls[c].blobs) = MaxSwept
        /\ Len(crawls[c].handled) = 1
        /\ crawls[c].handled[1][1] = "processSuite"
        /\ crawls[c].blobs[1][1] = "logs"

\* The row the benchmarks table is to hold for the benchmark blob k.
RowOf(k) == benchmarkRow(safeLoad(storage[k]))

\* The select() call q has settled with a row for every benchmark blob in
\* storage.
SeesEveryBenchmark(q) ==
    /\ selects[q].pc = "returned"
    /\ \A k \in BenchmarkBlobs :
          \E i \in 1..Len(selects[q].result.rows) :
              selects[q].result.rows[i] = RowOf(k)

\* C21: when initialize() has returned its crawl has completed, and a
\* select('benchmarks') that was called after initialize() returned and
\* has settled gives a row for every benchmark blob that was in storage
\* when initialize() was called (storage does not change while the
\* Repository is observed).
C21_InitializeCrawls ==
    /\ \A c \in Initialized : crawls[c].pc = "done"
    /\ \A q \in DOMAIN selects :
          /\ selects[q].pc \in {"returned", "threw"}
          /\ selects[q].from = benchmarkTableName
          /\ selects[q].initialized # {}
          => SeesEveryBenchmark(q)

\* The createWorker() calls <<run, place>> that mount the RamDisk `disk`.
Mounting(disk) ==
    {w \in {<<q, i>> : q \in DOMAIN runs, i \in 1..2} :
        /\ w[2] <= Len(workers[w[1]])
        /\ \E j \in 1..Len(workers[w[1]][w[2]].volumes) :
              workers[w[1]][w[2]].volumes[j].disk = disk}

\* The text of spec.yaml on the RamDisk of `run`.
Manifest(run) == run.secrets["spec.yaml"]

\* Where the plaintext manifest of each run is.
ManifestConfined ==
    \A r \in DOMAIN runs :
        LET run == runs[r]
        IN  /\ run.disk = NoDisk =>
                  /\ run.secrets = NoBlobs
                  /\ run.candidateData # NoData =>
                        run.candidateData.secret # "plain"
            /\ \A i \in 1..Len(workers[r]) :
                  /\ workers[r][i].hostname[1] = "b" =>
                        workers[r][i].volumes = <<>>
                  /\ \A e \in workers[r][i].environment : e[2] # "plain"
            /\ run.disk # NoDisk =>
                  /\ \A q \in DOMAIN runs \ {r} : runs[q].disk # run.disk
                  /\ safeLoad(Manifest(run)).secret = "plain"
                  /\ Mounting(run.disk) \subseteq {<<r, 1>>}
                  /\ run.pc = "returned" =>
                        /\ Mounting(run.disk) = {<<r, 1>>}
                        /\ workers[r][1].hostname = candidateHostOf(run.runId)
                        /\ workers[r][1].volumes[1].storage = run.secrets
                  /\ run.pc # "returned" => Mounting(run.disk) = {}
                  /\ \A k \in DOMAIN storage :
                        /\ storage[k] # Manifest(run)
                        /\ getCollection(k) = "candidates" =>
                              safeLoad(storage[k]).secret # "plain"

\* What a step of a run() does to the disks and to cloud storage.
ManifestSteps ==
    \A r \in DOMAIN runs :
        /\ runs'[r] # runs[r] => storage' = storage
        /\ runs[r].disk # NoDisk =>
              /\ runs'[r].disk = runs[r].disk
              /\ runs'[r].secrets = runs[r].secrets
        /\ runs[r].disk = NoDisk /\ runs'[r].disk # NoDisk =>
              /\ runs[r].pc = "loadCandidate"
              /\ \A q \in DOMAIN runs : runs[q].disk # runs'[r].disk
              /\ Mounting(runs'[r].disk) = {}

\* C22: the decrypted manifest of a run is on a RamDisk that run() made
\* in that invocation and that no other invocation holds; the disk is
\* mounted by no createWorker() call until run() returns and from then on
\* by exactly one, the call for that run's candidate container; no
\* benchmark container gets a volume, no environment holds the plaintext,
\* and no step of a run() changes cloud storage, which never holds the
\* plaintext manifest.
C22_ManifestConfined == []ManifestConfined /\ [][ManifestSteps]_vars

C22_Witness ==
    \E r, q \in DOMAIN runs :
        /\ r # q
        /\ runs[r].pc = "returned" /\ runs[q].pc = "returned"
        /\ runs[r].candidateId = runs[q].candidateId
        /\ Manifest(runs[r]) = Manifest(runs[q])
        /\ runs[r].disk # runs[q].disk
        /\ Mounting(runs[r].disk) = {<<r, 1>>}
        /\ Mounting(runs[q].disk) = {<<q, 1>>}
====
